---- MODULE Spec2Model ----
(***************************************************************************)
(* github-exporter: the three polling tasks spawned by main (workflow      *)
(* discovery, per-workflow billable time, organisation billing), the       *)
(* shared workflow cache with its per-repository RwLock, and the           *)
(* Prometheus gauges the tasks publish to.                                 *)
(*                                                                         *)
(* An upstream call is modelled in two halves: the environment delivers    *)
(* a response (the *_response actions), and the task that awaited it runs  *)
(* up to its next await (the other actions).  A call that hangs is a       *)
(* response that is never delivered.                                       *)
(***************************************************************************)
EXTENDS Integers, Sequences, FiniteSets, TLC

VARIABLES
    github_repos,      \* main: the parsed repositories, in the cache's iteration order
    github_orgs,       \* main: the parsed organisations
    mpc,               \* main: "start", "spawned" once the three tasks are spawned, "exit" after an error
    args,              \* main: the command line and environment, as clap matched them
    octocrab,          \* main: the base URL of the initialised upstream client, "" before octocrab::initialise
    github_workflows,  \* main: HashMap<Repository, RwLock<Vec<Workflow>>>, the Vec of each entry
    readers,           \* per entry: number of read guards alive
    writer,            \* per entry: whether a write guard is alive
    gauges,            \* the Prometheus registry: series key -> value, present series only
    dpc, dIdx,         \* poll_workflows: position, index of the repository in the for loop
    dHeld,             \* what the upstream held for the repository when it answered
    dResp,             \* the answer of list().per_page(100).send()
    updated_workflows, \* poll_workflow: the collected Vec<Workflow>
    upc, uIdx, uW,     \* poll_billable_ms: position, repository index, workflow index
    workflow,          \* poll_billable_ms: the workflow of the current inner iteration
    uResp,             \* the answer of the timing call
    uSnap, uPolled,    \* history: the list seen when the read guard was taken, the workflows polled from it
    lastGood,          \* history: per series, the figure of the latest successful timing answer that held its class
    published,         \* history: <<repository, workflow id, workflow label>> of the publications of TrackedIds
    opc, oIdx,         \* poll_orgs_billing: position, index of the organisation
    oRes               \* poll_org_billing: the three results of tokio::join!

vars == <<github_repos, github_orgs, mpc, args, octocrab, github_workflows, readers, writer, gauges,
          dpc, dIdx, dHeld, dResp, updated_workflows,
          upc, uIdx, uW, workflow, uResp, uSnap, uPolled, lastGood, published,
          opc, oIdx, oRes>>

confVars == <<github_repos, github_orgs, mpc, args, octocrab>>
lockVars == <<readers, writer>>
discVars == <<dpc, dIdx, dHeld, dResp, updated_workflows>>
usageVars == <<upc, uIdx, uW, workflow, uResp, uSnap, uPolled, lastGood, published>>
orgVars == <<opc, oIdx, oRes>>

----------------------------------------------------------------------------
(* Bounds of the model and constants of the program *)

\* billable milliseconds an upstream timing answer may carry: 1..MaxMs
MaxMs == 2
\* minutes an upstream billing answer may carry: 1..MaxMinutes
MaxMinutes == 2
\* workflows the upstream holds beyond one page in the paging scenario
ExtraWorkflows == 1
\* poll_workflow asks for pages of 100
PerPage == 100

UBUNTU == "ubuntu"
MACOS == "macos"
WINDOWS == "windows"
HostClasses == {UBUNTU, MACOS, WINDOWS}

Range(s) == {s[i] : i \in DOMAIN s}
Min(a, b) == IF a <= b THEN a ELSE b

\* Option<T>: None is <<>>, Some(v) is <<v>>
None == <<>>
Some(v) == <<v>>
\* Result<T>: Ok(v), Err; Pending is a future that has not completed
Ok(v) == <<"ok", v>>
Err == <<"err">>
Pending == <<"pending">>
IsOk(r) == r[1] = "ok"

----------------------------------------------------------------------------
(* types.rs *)

Repository(owner, name) == [owner |-> owner, name |-> name]
Workflow(id, name) == [id |-> id, name |-> name]

\* the item octocrab returns for a workflow carries more than id and name
UpstreamWorkflow(id, name) == [id |-> id, name |-> name, state |-> "active"]

Widgets == Repository("acme", "widgets")
Gears == Repository("acme", "gears")

Acme == "acme"
Globex == "globex"

NoWorkflow == Workflow(0, "")

Repo(i) == github_repos[i]
Org(i) == github_orgs[i]

\* a cache keyed by the owner alone: two repositories of one owner share an entry
new_github_workflows_by_owner(repos) == [o \in {r.owner : r \in Range(repos)} |-> <<>>]

\* main: one entry per configured repository, each an empty Vec behind its own RwLock
new_github_workflows(repos) == [r \in Range(repos) |-> <<>>]

----------------------------------------------------------------------------
(* types.rs: the textual form of a repository. A string is a sequence of characters *)

MaxLen == 4
Chars == {"a", "b", "/"}
Strings == UNION {[1..n -> Chars] : n \in 0..MaxLen}

\* str::split_once(c): the text before and the text after the first c
split_once(s, c) ==
    IF c \notin Range(s) THEN None
    ELSE LET i == CHOOSE i \in DOMAIN s : s[i] = c /\ \A j \in 1..(i - 1) : s[j] # c
         IN  Some(<<SubSeq(s, 1, i - 1), SubSeq(s, i + 1, Len(s))>>)

\* str::rsplit_once(c): the text before and the text after the last c
rsplit_once(s, c) ==
    IF c \notin Range(s) THEN None
    ELSE LET i == CHOOSE i \in DOMAIN s : s[i] = c /\ \A j \in (i + 1)..Len(s) : s[j] # c
         IN  Some(<<SubSeq(s, 1, i - 1), SubSeq(s, i + 1, Len(s))>>)

\* the owner taken up to the last separator
from_str_at_last(s) ==
    LET parts == rsplit_once(s, "/")
    IN  IF parts = None THEN Err ELSE Ok(Repository(parts[1][1], parts[1][2]))

\* impl FromStr for Repository
from_str(s) ==
    LET parts == split_once(s, "/")
    IN  IF parts = None THEN Err ELSE Ok(Repository(parts[1][1], parts[1][2]))

\* impl Display for Repository: write!(f, "{}/{}", self.owner, self.name)
display(repo) == repo.owner \o <<"/">> \o repo.name

\* values_t!(matches, name, Repository): every value parsed, the first error returned
values_t(values) ==
    IF \E i \in DOMAIN values : ~IsOk(from_str(values[i])) THEN Err
    ELSE Ok([i \in DOMAIN values |-> from_str(values[i])[2]])

----------------------------------------------------------------------------
(* tokio::sync::RwLock, as poll_workflow and poll_billable_ms use it *)

\* a write guard that does not wait for the readers
can_write_ignores_readers(r) == ~writer[r]

\* workflows.write().await completes when no guard of the entry is alive
can_write(r) == readers[r] = 0 /\ ~writer[r]
\* the discovery task has called workflows.write() on the entry and waits in the lock's queue
write_queued(r) == dpc = "write" /\ Repo(dIdx) = r

\* workflows.read().await completes when no write guard of the entry is alive and no
\* writer waits: tokio's RwLock serves its queue first in, first out
can_read(r) == ~writer[r] /\ ~write_queued(r)

----------------------------------------------------------------------------
(* The Prometheus registry: with_label_values(..).set(v) *)

BILLABLE_MS == "github_actions_billable_ms"
ACTIONS_TOTAL_MINUTES_USED == "github_org_billing_actions_total_minutes_used"
ACTIONS_TOTAL_PAID_MINUTES_USED == "github_org_billing_actions_total_paid_minutes_used"
ACTIONS_INCLUDED_MINUTES == "github_org_billing_actions_included_minutes"
ACTIONS_MINUTES_USED_BREAKDOWN == "github_org_billing_actions_minutes_used_breakdown"
PACKAGES_TOTAL_GB_USED == "github_org_billing_packages_total_gigabytes_bandwidth_used"
PACKAGES_TOTAL_PAID_GB_USED == "github_org_billing_packages_total_paid_gigabytes_bandwidth_used"
PACKAGES_INCLUDED_GB == "github_org_billing_packages_included_gigabytes_bandwidth"
STORAGE_DAYS_LEFT == "github_org_billing_shared_storage_days_left_in_billing_cycle"
STORAGE_ESTIMATED_PAID == "github_org_billing_shared_storage_estimated_paid_storage_for_month"
STORAGE_ESTIMATED == "github_org_billing_shared_storage_estimated_storage_for_month"

Series(metric, labels) == <<metric, labels>>

\* a counter-like gauge: the value is added to what the series had
set_accumulates(g, metric, labels, v) ==
    (Series(metric, labels) :>
        (IF Series(metric, labels) \in DOMAIN g THEN g[Series(metric, labels)] + v ELSE v)) @@ g

\* GaugeVec::with_label_values(labels).set(v): creates the series if need be, overwrites its value
set(g, metric, labels, v) == (Series(metric, labels) :> v) @@ g

\* an absent value published as zero
set_if_some_or_zero(g, metric, labels, opt) ==
    IF opt # None THEN set(g, metric, labels, opt[1]) ELSE set(g, metric, labels, 0)

\* if let Some(v) = opt { gauge.set(v) }
set_if_some(g, metric, labels, opt) ==
    IF opt # None THEN set(g, metric, labels, opt[1]) ELSE g

Has(g, metric, labels) == Series(metric, labels) \in DOMAIN g
Value(g, metric, labels) == g[Series(metric, labels)]

----------------------------------------------------------------------------
(* tasks/poll_workflows.rs: the discovery task *)

\* .per_page(100).send(): the first page of what the upstream holds
first_page(held) == SubSeq(held, 1, Min(Len(held), PerPage))

\* page.into_iter().map(|w| Workflow { id: w.id, name: w.name }).collect()
collect_workflows(page) == [i \in DOMAIN page |-> Workflow(page[i].id, page[i].name)]

\* w.extend(updated_workflows): the fetched list merged into the old one
assign_workflows_appends(w, updated) == w \o updated

\* *w = updated_workflows
assign_workflows(w, updated) == updated

\* poll_workflows: the for loop reaches repository i, or the sleep after the last one
poll_workflows_goto(i) ==
    IF i <= Len(github_repos)
    THEN dpc' = "fetch" /\ dIdx' = i
    ELSE dpc' = "idle" /\ dIdx' = 1

\* the sleep ends (or the task starts): the first repository's list call is sent
poll_workflows_wake ==
    /\ mpc = "spawned"
    /\ dpc = "idle"
    /\ github_repos # <<>>
    /\ poll_workflows_goto(1)
    /\ UNCHANGED <<dHeld, dResp, updated_workflows>>
    /\ UNCHANGED <<confVars, github_workflows, lockVars, gauges, usageVars, orgVars>>

\* the upstream answers the list call with its first page
list_workflows_ok(lists) ==
    /\ dpc = "fetch"
    /\ \E held \in lists :
          /\ dHeld' = held
          /\ dResp' = Ok(first_page(held))
    /\ dpc' = "resp"
    /\ UNCHANGED <<dIdx, updated_workflows>>
    /\ UNCHANGED <<confVars, github_workflows, lockVars, gauges, usageVars, orgVars>>

\* the list call fails (transport or decode error)
list_workflows_err ==
    /\ dpc = "fetch"
    /\ dResp' = Err
    /\ dpc' = "resp"
    /\ UNCHANGED <<dIdx, dHeld, updated_workflows>>
    /\ UNCHANGED <<confVars, github_workflows, lockVars, gauges, usageVars, orgVars>>

\* poll_workflow after a successful send: collect, then wait for the write guard
poll_workflow_collect ==
    /\ dpc = "resp"
    /\ IsOk(dResp)
    /\ updated_workflows' = collect_workflows(dResp[2])
    /\ dpc' = "write"
    /\ UNCHANGED <<dIdx, dHeld, dResp>>
    /\ UNCHANGED <<confVars, github_workflows, lockVars, gauges, usageVars, orgVars>>

\* the error of one repository ends the cycle
poll_workflow_failed_aborts ==
    /\ dpc = "resp"
    /\ ~IsOk(dResp)
    /\ dResp' = Pending
    /\ dpc' = "idle"
    /\ dIdx' = 1
    /\ UNCHANGED <<dHeld, updated_workflows>>
    /\ UNCHANGED <<confVars, github_workflows, lockVars, gauges, usageVars, orgVars>>

\* poll_workflow returns the error of send with `?`; poll_workflows logs it and goes on
poll_workflow_failed ==
    /\ dpc = "resp"
    /\ ~IsOk(dResp)
    /\ dResp' = Pending
    /\ poll_workflows_goto(dIdx + 1)
    /\ UNCHANGED <<dHeld, updated_workflows>>
    /\ UNCHANGED <<confVars, github_workflows, lockVars, gauges, usageVars, orgVars>>

\* let mut w = workflows.write().await
poll_workflow_write ==
    /\ dpc = "write"
    /\ can_write(Repo(dIdx))
    /\ writer' = [writer EXCEPT ![Repo(dIdx)] = TRUE]
    /\ dpc' = "held"
    /\ UNCHANGED <<dIdx, dHeld, dResp, updated_workflows>>
    /\ UNCHANGED <<confVars, github_workflows, readers, gauges, usageVars, orgVars>>

\* the write guard taken outside the block: it lives on after the assignment
poll_workflow_replace_keeps_guard ==
    /\ dpc = "held"
    /\ github_workflows' =
          [github_workflows EXCEPT ![Repo(dIdx)] = assign_workflows(@, updated_workflows)]
    /\ updated_workflows' = <<>>
    /\ dHeld' = <<>>
    /\ dResp' = Pending
    /\ poll_workflows_goto(dIdx + 1)
    /\ UNCHANGED <<confVars, lockVars, gauges, usageVars, orgVars>>

\* *w = updated_workflows; the guard is dropped; Ok(()); the for loop goes on
poll_workflow_replace ==
    /\ dpc = "held"
    /\ github_workflows' =
          [github_workflows EXCEPT ![Repo(dIdx)] = assign_workflows(@, updated_workflows)]
    /\ writer' = [writer EXCEPT ![Repo(dIdx)] = FALSE]
    /\ updated_workflows' = <<>>
    /\ dHeld' = <<>>
    /\ dResp' = Pending
    /\ poll_workflows_goto(dIdx + 1)
    /\ UNCHANGED <<confVars, readers, gauges, usageVars, orgVars>>

----------------------------------------------------------------------------
(* tasks/poll_billable_ms.rs: the usage task *)

\* struct Usage { billable: Billable { ubuntu, macos, windows: Option<BillableTime> } }
Usage(ubuntu, macos, windows) ==
    [billable |-> [ubuntu |-> ubuntu, macos |-> macos, windows |-> windows]]
BillableTime(total_ms) == [total_ms |-> total_ms]

\* if let Some(BillableTime { total_ms, .. }) = opt { gauge.set(total_ms) }
total_ms_of(opt) == IF opt = None THEN None ELSE Some(opt[1].total_ms)

\* poll_billable_ms_for_workflow after a successful get: the three `if let Some`
publish_billable_ms(g, repo, wf, usage) ==
    LET g1 == set_if_some(g, BILLABLE_MS, <<repo.owner, repo.name, wf.name, UBUNTU>>,
                          total_ms_of(usage.billable.ubuntu))
        g2 == set_if_some(g1, BILLABLE_MS, <<repo.owner, repo.name, wf.name, MACOS>>,
                          total_ms_of(usage.billable.macos))
    IN  set_if_some(g2, BILLABLE_MS, <<repo.owner, repo.name, wf.name, WINDOWS>>,
                    total_ms_of(usage.billable.windows))

\* the for loop without the `loop` around it: after the last repository the task returns
poll_billable_ms_goto_returns(i) ==
    IF i <= Len(github_repos)
    THEN upc' = "read" /\ uIdx' = i
    ELSE upc' = "done" /\ uIdx' = 1

\* poll_billable_ms: the outer for loop reaches repository i, or the sleep after the last one
poll_billable_ms_goto(i) ==
    IF i <= Len(github_repos)
    THEN upc' = "read" /\ uIdx' = i
    ELSE upc' = "idle" /\ uIdx' = 1

\* the read guard kept in a place that outlives the pass: it is never dropped
poll_billable_ms_iter_leaks(r, k, rd, polled) ==
    IF k <= Len(github_workflows[r])
    THEN /\ readers' = rd
         /\ uW' = k
         /\ workflow' = github_workflows[r][k]
         /\ uPolled' = Append(polled, github_workflows[r][k])
         /\ upc' = "timing"
         /\ uIdx' = uIdx
    ELSE /\ readers' = rd
         /\ uW' = 0
         /\ workflow' = NoWorkflow
         /\ uPolled' = polled
         /\ poll_billable_ms_goto(uIdx + 1)

\* the inner for loop over the guarded Vec of repository r reaches element k: its timing
\* call is sent; past the last element the read guard is dropped and the outer loop goes on.
\* rd is the readers count with the guard alive, polled the workflows polled so far
poll_billable_ms_iter(r, k, rd, polled) ==
    IF k <= Len(github_workflows[r])
    THEN /\ readers' = rd
         /\ uW' = k
         /\ workflow' = github_workflows[r][k]
         /\ uPolled' = Append(polled, github_workflows[r][k])
         /\ upc' = "timing"
         /\ uIdx' = uIdx
    ELSE /\ readers' = [rd EXCEPT ![r] = @ - 1]
         /\ uW' = 0
         /\ workflow' = NoWorkflow
         /\ uPolled' = polled
         /\ poll_billable_ms_goto(uIdx + 1)

\* the sleep ends (or the task starts)
poll_billable_ms_wake ==
    /\ mpc = "spawned"
    /\ upc = "idle"
    /\ github_repos # <<>>
    /\ poll_billable_ms_goto(1)
    /\ UNCHANGED <<uW, workflow, uResp, uSnap, uPolled, lastGood, published>>
    /\ UNCHANGED <<confVars, github_workflows, lockVars, gauges, discVars, orgVars>>

\* workflows.read().await: the guard lives for the whole inner for loop
poll_billable_ms_read ==
    /\ upc = "read"
    /\ can_read(Repo(uIdx))
    /\ uSnap' = github_workflows[Repo(uIdx)]
    /\ poll_billable_ms_iter(Repo(uIdx), 1, [readers EXCEPT ![Repo(uIdx)] = @ + 1], <<>>)
    /\ UNCHANGED <<uResp, lastGood, published>>
    /\ UNCHANGED <<confVars, github_workflows, writer, gauges, discVars, orgVars>>

\* history of the answers: the series of every class the answer holds takes the answer's
\* figure, the series of a class it does not hold keeps what it had
answered(last, repo, wf, usage) ==
    LET held == {os \in HostClasses : usage.billable[os] # None}
        key(os) == Series(BILLABLE_MS, <<repo.owner, repo.name, wf.name, os>>)
    IN  [k \in DOMAIN last \cup {key(os) : os \in held} |->
            IF \E os \in held : k = key(os)
            THEN usage.billable[CHOOSE os \in held : k = key(os)][1].total_ms
            ELSE last[k]]

\* the upstream answers the timing call
timing_ok(usages) ==
    /\ upc = "timing"
    /\ \E usage \in usages :
          /\ uResp' = Ok(usage)
          /\ lastGood' = answered(lastGood, Repo(uIdx), workflow, usage)
    /\ upc' = "resp"
    /\ UNCHANGED <<uIdx, uW, workflow, uSnap, uPolled, published>>
    /\ UNCHANGED <<confVars, github_workflows, lockVars, gauges, discVars, orgVars>>

\* the timing call fails
timing_err ==
    /\ upc = "timing"
    /\ uResp' = Err
    /\ upc' = "resp"
    /\ UNCHANGED <<uIdx, uW, workflow, uSnap, uPolled, lastGood, published>>
    /\ UNCHANGED <<confVars, github_workflows, lockVars, gauges, discVars, orgVars>>

\* the workflows whose publications the history follows
TrackedIds == {1, 3}

\* history of the publications: which workflow published under which label
publication(repo, wf) ==
    IF wf.id \in TrackedIds THEN {<<repo, wf.id, wf.name>>} ELSE {}

\* poll_billable_ms_for_workflow publishes and returns Ok(()); the inner loop goes on
poll_billable_ms_published ==
    /\ upc = "resp"
    /\ IsOk(uResp)
    /\ gauges' = publish_billable_ms(gauges, Repo(uIdx), workflow, uResp[2])
    /\ published' = published \cup publication(Repo(uIdx), workflow)
    /\ uResp' = Pending
    /\ poll_billable_ms_iter(Repo(uIdx), uW + 1, readers, uPolled)
    /\ UNCHANGED <<uSnap, lastGood>>
    /\ UNCHANGED <<confVars, github_workflows, writer, discVars, orgVars>>

\* the error of one workflow ends the inner loop: the rest of the repository is skipped
poll_billable_ms_failed_breaks ==
    /\ upc = "resp"
    /\ ~IsOk(uResp)
    /\ uResp' = Pending
    /\ poll_billable_ms_iter(Repo(uIdx), Len(github_workflows[Repo(uIdx)]) + 1, readers, uPolled)
    /\ UNCHANGED <<uSnap, lastGood, published>>
    /\ UNCHANGED <<confVars, github_workflows, writer, gauges, discVars, orgVars>>

\* poll_billable_ms_for_workflow returns the error with `?`; it is logged; the inner loop goes on
poll_billable_ms_failed ==
    /\ upc = "resp"
    /\ ~IsOk(uResp)
    /\ uResp' = Pending
    /\ poll_billable_ms_iter(Repo(uIdx), uW + 1, readers, uPolled)
    /\ UNCHANGED <<uSnap, lastGood, published>>
    /\ UNCHANGED <<confVars, github_workflows, writer, gauges, discVars, orgVars>>

----------------------------------------------------------------------------
(* tasks/poll_orgs_billing.rs: the organisation billing task *)

\* the upstream sends total_paid_minutes_used as text; serde reads it with DisplayFromStr
Digits == <<"0", "1", "2", "3", "4", "5", "6", "7", "8", "9">>
DigitValue(c) == CHOOSE d \in 0..9 : Digits[d + 1] = c

RECURSIVE to_text(_)
to_text(n) == IF n < 10 THEN <<Digits[n + 1]>> ELSE Append(to_text(n \div 10), Digits[(n % 10) + 1])

RECURSIVE f64_from_str(_)
f64_from_str(t) ==
    IF Len(t) = 1 THEN DigitValue(t[1])
    ELSE 10 * f64_from_str(SubSeq(t, 1, Len(t) - 1)) + DigitValue(t[Len(t)])

\* struct MinutesUsedBreakdown { ubuntu, macos, windows: Option<f64> }
MinutesUsedBreakdown(ubuntu, macos, windows) ==
    [ubuntu |-> ubuntu, macos |-> macos, windows |-> windows]

\* #[serde_as] struct ActionsBilling, read from the body of the actions answer
deserialize_actions_billing(body) ==
    [total_minutes_used |-> body.total_minutes_used,
     total_paid_minutes_used |-> f64_from_str(body.total_paid_minutes_used),
     included_minutes |-> body.included_minutes,
     minutes_used_breakdown |-> body.minutes_used_breakdown]

set_metrics_actions_billing(g, org, actions_billing) ==
    LET g1 == set(g, ACTIONS_TOTAL_MINUTES_USED, <<org>>, actions_billing.total_minutes_used)
        g2 == set(g1, ACTIONS_TOTAL_PAID_MINUTES_USED, <<org>>,
                  actions_billing.total_paid_minutes_used)
        g3 == set(g2, ACTIONS_INCLUDED_MINUTES, <<org>>, actions_billing.included_minutes)
        g4 == set_if_some(g3, ACTIONS_MINUTES_USED_BREAKDOWN, <<org, UBUNTU>>,
                          actions_billing.minutes_used_breakdown.ubuntu)
        g5 == set_if_some(g4, ACTIONS_MINUTES_USED_BREAKDOWN, <<org, MACOS>>,
                          actions_billing.minutes_used_breakdown.macos)
    IN  set_if_some(g5, ACTIONS_MINUTES_USED_BREAKDOWN, <<org, WINDOWS>>,
                    actions_billing.minutes_used_breakdown.windows)

\* two fields of the packages answer published under each other's metric
set_metrics_packages_billing_swapped(g, org, packages_billing) ==
    LET g1 == set(g, PACKAGES_INCLUDED_GB, <<org>>,
                  packages_billing.total_gigabytes_bandwidth_used)
        g2 == set(g1, PACKAGES_TOTAL_GB_USED, <<org>>,
                  packages_billing.included_gigabytes_bandwidth)
    IN  set(g2, PACKAGES_TOTAL_PAID_GB_USED, <<org>>,
            packages_billing.total_paid_gigabytes_bandwidth_used)

set_metrics_packages_billing(g, org, packages_billing) ==
    LET g1 == set(g, PACKAGES_INCLUDED_GB, <<org>>,
                  packages_billing.included_gigabytes_bandwidth)
        g2 == set(g1, PACKAGES_TOTAL_GB_USED, <<org>>,
                  packages_billing.total_gigabytes_bandwidth_used)
    IN  set(g2, PACKAGES_TOTAL_PAID_GB_USED, <<org>>,
            packages_billing.total_paid_gigabytes_bandwidth_used)

set_metrics_shared_storage_billing(g, org, shared_storage_billing) ==
    LET g1 == set(g, STORAGE_DAYS_LEFT, <<org>>,
                  shared_storage_billing.days_left_in_billing_cycle)
        g2 == set(g1, STORAGE_ESTIMATED_PAID, <<org>>,
                  shared_storage_billing.estimated_paid_storage_for_month)
    IN  set(g2, STORAGE_ESTIMATED, <<org>>,
            shared_storage_billing.estimated_storage_for_month)

\* poll_org_billing after tokio::join!: each result is unwrapped with `?` right where its
\* set_metrics_* call is made, in the order actions, packages, shared storage
publish_org_billing(g, org, res) ==
    IF ~IsOk(res.actions) THEN g
    ELSE LET g1 == set_metrics_actions_billing(g, org, res.actions[2])
         IN  IF ~IsOk(res.packages) THEN g1
             ELSE LET g2 == set_metrics_packages_billing(g1, org, res.packages[2])
                  IN  IF ~IsOk(res.shared_storage) THEN g2
                      ELSE set_metrics_shared_storage_billing(g2, org, res.shared_storage[2])

AllPending == [actions |-> Pending, packages |-> Pending, shared_storage |-> Pending]
Joined(res) == res.actions # Pending /\ res.packages # Pending /\ res.shared_storage # Pending

\* poll_orgs_billing: the for loop reaches organisation i and tokio::join! polls the three
\* futures, which sends the three calls; or the sleep after the last organisation
poll_orgs_billing_goto(i) ==
    IF i <= Len(github_orgs)
    THEN opc' = "join" /\ oIdx' = i
    ELSE opc' = "idle" /\ oIdx' = 1

\* the sleep ends (or the task starts)
poll_orgs_billing_wake ==
    /\ mpc = "spawned"
    /\ opc = "idle"
    /\ github_orgs # <<>>
    /\ poll_orgs_billing_goto(1)
    /\ UNCHANGED oRes
    /\ UNCHANGED <<confVars, github_workflows, lockVars, gauges, discVars, usageVars>>

\* the upstream answers the actions billing call
actions_billing_response(bodies) ==
    /\ opc = "join"
    /\ oRes.actions = Pending
    /\ \/ \E body \in bodies :
             oRes' = [oRes EXCEPT !.actions = Ok(deserialize_actions_billing(body))]
       \/ oRes' = [oRes EXCEPT !.actions = Err]
    /\ UNCHANGED <<opc, oIdx>>
    /\ UNCHANGED <<confVars, github_workflows, lockVars, gauges, discVars, usageVars>>

\* the upstream answers the packages billing call
packages_billing_response(bodies) ==
    /\ opc = "join"
    /\ oRes.packages = Pending
    /\ \/ \E body \in bodies : oRes' = [oRes EXCEPT !.packages = Ok(body)]
       \/ oRes' = [oRes EXCEPT !.packages = Err]
    /\ UNCHANGED <<opc, oIdx>>
    /\ UNCHANGED <<confVars, github_workflows, lockVars, gauges, discVars, usageVars>>

\* the upstream answers the shared-storage billing call
shared_storage_billing_response(bodies) ==
    /\ opc = "join"
    /\ oRes.shared_storage = Pending
    /\ \/ \E body \in bodies : oRes' = [oRes EXCEPT !.shared_storage = Ok(body)]
       \/ oRes' = [oRes EXCEPT !.shared_storage = Err]
    /\ UNCHANGED <<opc, oIdx>>
    /\ UNCHANGED <<confVars, github_workflows, lockVars, gauges, discVars, usageVars>>

\* tokio::try_join!: the first error ends the poll, the fetches still in flight are dropped
poll_org_billing_try_joined ==
    /\ opc = "join"
    /\ Joined(oRes) \/ \E k \in DOMAIN oRes : oRes[k] = Err
    /\ gauges' = publish_org_billing(gauges, Org(oIdx), oRes)
    /\ oRes' = AllPending
    /\ poll_orgs_billing_goto(oIdx + 1)
    /\ UNCHANGED <<confVars, github_workflows, lockVars, discVars, usageVars>>

\* tokio::join! completes: the rest of poll_org_billing runs, then the for loop goes on
poll_org_billing_joined ==
    /\ opc = "join"
    /\ Joined(oRes)
    /\ gauges' = publish_org_billing(gauges, Org(oIdx), oRes)
    /\ oRes' = AllPending
    /\ poll_orgs_billing_goto(oIdx + 1)
    /\ UNCHANGED <<confVars, github_workflows, lockVars, discVars, usageVars>>

----------------------------------------------------------------------------
(* What the upstream may answer *)

\* workflow lists the upstream may hold for a repository
ListsFew ==
    {<<>>,
     <<UpstreamWorkflow(1, "ci")>>,
     <<UpstreamWorkflow(2, "release"), UpstreamWorkflow(1, "ci")>>}

\* the lists of a repository that has one workflow or none
ListsOne == {<<>>, <<UpstreamWorkflow(1, "ci")>>}

\* the lists of a repository whose workflow 1 is renamed from "ci" to "build", or deleted
\* and created again as workflow 3 under the label "ci"
ListsNames ==
    {<<>>, <<UpstreamWorkflow(1, "ci")>>, <<UpstreamWorkflow(1, "build")>>,
     <<UpstreamWorkflow(3, "ci")>>}

\* a list one page cannot hold
LongList ==
    [i \in 1..(PerPage + ExtraWorkflows) |->
        UpstreamWorkflow(i, IF i % 2 = 1 THEN "ci" ELSE "release")]
ListsLong == {<<UpstreamWorkflow(1, "ci")>>, LongList}

OptMs == {None} \cup {Some(BillableTime(m)) : m \in 1..MaxMs}
UsagesAll == {Usage(u, m, w) : u \in OptMs, m \in OptMs, w \in OptMs}
UsagesFew == {Usage(Some(BillableTime(1)), None, None)}
UsagesTwo == {Usage(Some(BillableTime(1)), None, None), Usage(Some(BillableTime(MaxMs)), None, None)}

\* the three fields of a billing body differ, so that a field published under another
\* field's metric shows
ActionsBody(v, breakdown) ==
    [total_minutes_used |-> v,
     total_paid_minutes_used |-> to_text(v + 10),
     included_minutes |-> v + 20,
     minutes_used_breakdown |-> breakdown]
PackagesBilling(v) ==
    [total_gigabytes_bandwidth_used |-> v,
     total_paid_gigabytes_bandwidth_used |-> v + 10,
     included_gigabytes_bandwidth |-> v + 20]
SharedStorageBilling(v) ==
    [days_left_in_billing_cycle |-> v,
     estimated_paid_storage_for_month |-> v + 10,
     estimated_storage_for_month |-> v + 20]

OptMinutes == {None} \cup {Some(m) : m \in 1..MaxMinutes}
ActionsAll ==
    {ActionsBody(1, MinutesUsedBreakdown(u, m, w)) :
        u \in OptMinutes, m \in OptMinutes, w \in OptMinutes}
ActionsFew ==
    {ActionsBody(1, MinutesUsedBreakdown(Some(1), None, None)),
     ActionsBody(2, MinutesUsedBreakdown(Some(2), Some(2), None))}
PackagesFew == {PackagesBilling(1)}
StorageFew == {SharedStorageBilling(1)}

----------------------------------------------------------------------------
(* main: the state when the three tasks have been spawned *)

\* The billing task shares nothing with the other two tasks but the registry, where its
\* series have metric names of their own; the configurations below give items either to
\* the two cache tasks or to the billing task. A task without items only sleeps.
\* Both cache tasks walk the same HashMap, which is never modified, so both meet the
\* repositories in the same order: the order of github_repos.
Config(repos, orgs) == [repos |-> repos, orgs |-> orgs]

\* two repositories and no organisation, or two organisations and no repository
ConfigsTwo == {Config(<<Widgets, Gears>>, <<>>), Config(<<>>, <<Acme, Globex>>)}
\* one repository and no organisation, or one organisation and no repository
ConfigsOne == {Config(<<Widgets>>, <<>>), Config(<<>>, <<Acme>>)}
ConfigsRepo == {Config(<<Widgets>>, <<>>)}

\* the base URL of the client when the builder is given none
GITHUB_BASE_URL == "https://api.github.com"

main(configs) ==
    /\ \E c \in configs :
          /\ github_repos = c.repos
          /\ github_orgs = c.orgs
    /\ mpc = "spawned"
    /\ args = <<>>
    /\ octocrab = GITHUB_BASE_URL
    /\ github_workflows = new_github_workflows(github_repos)
    /\ readers = [r \in Range(github_repos) |-> 0]
    /\ writer = [r \in Range(github_repos) |-> FALSE]
    /\ gauges = <<>>
    /\ dpc = "idle" /\ dIdx = 1 /\ dHeld = <<>> /\ dResp = Pending
    /\ updated_workflows = <<>>
    /\ upc = "idle" /\ uIdx = 1 /\ uW = 0 /\ workflow = NoWorkflow /\ uResp = Pending
    /\ uSnap = <<>> /\ uPolled = <<>> /\ lastGood = <<>> /\ published = {}
    /\ opc = "idle" /\ oIdx = 1 /\ oRes = AllPending

\* clap: an argument given on the command line, taken from its environment variable, or
\* left to its default value
Cli(values) == [source |-> "cli", values |-> values]
Env(values) == [source |-> "env", values |-> values]
Default == [source |-> "default", values |-> <<<<>>>>]

\* ArgMatches::occurrences_of: the uses of the argument on the command line; a value taken
\* from the environment or from default_value counts for none
occurrences_of(arg) == IF arg.source = "cli" THEN 1 ELSE 0

\* an argument without default_value that was not given
Absent == [source |-> "absent", values |-> <<>>]

\* ArgMatches::value_of: the first value of the argument of that name; None when it has no
\* value, and None when the App defines no argument of that name
value_of(matches, name) ==
    IF name \notin DOMAIN matches THEN None
    ELSE IF matches[name].values = <<>> THEN None
         ELSE Some(matches[name].values[1])

\* the arguments of the App, under the names of Arg::with_name
CmdLine(bind_valid, github_token, repos, orgs, baseurl) ==
    [bind_valid |-> bind_valid, github_token |-> github_token,
     github_repos |-> repos, github_orgs |-> orgs, github_api_baseurl |-> baseurl]

\* Octocrab::builder().personal_token(..), base_url(s) if a base URL was read, initialise
octocrab_initialise(github_base_url) ==
    IF github_base_url # None THEN github_base_url[1] ELSE GITHUB_BASE_URL

\* main, from get_matches to the last tokio::spawn: no await lies between them
main_run ==
    /\ mpc = "start"
    /\ IF ~args.bind_valid \/ args.github_token = None
       THEN \* get_matches: the validator of bind, required(true) of github_token
            /\ mpc' = "exit"
            /\ UNCHANGED <<github_repos, github_orgs, github_workflows, lockVars, octocrab>>
       ELSE LET github_base_url == value_of(args, "github_base_url")
                repos == IF occurrences_of(args.github_repos) > 0
                         THEN values_t(args.github_repos.values)
                         ELSE Ok(<<>>)
                orgs == IF occurrences_of(args.github_orgs) > 0
                        THEN args.github_orgs.values
                        ELSE <<>>
            IN  IF ~IsOk(repos)
                THEN /\ mpc' = "exit"
                     /\ UNCHANGED <<github_repos, github_orgs, github_workflows, lockVars,
                                    octocrab>>
                ELSE /\ octocrab' = octocrab_initialise(github_base_url)
                     /\ github_repos' = repos[2]
                     /\ github_orgs' = orgs
                     /\ github_workflows' = new_github_workflows(repos[2])
                     /\ readers' = [r \in Range(repos[2]) |-> 0]
                     /\ writer' = [r \in Range(repos[2]) |-> FALSE]
                     /\ mpc' = "spawned"
    /\ UNCHANGED <<args, gauges, discVars, usageVars, orgVars>>

\* the process is started on one of the command lines
start(cmdlines) ==
    /\ mpc = "start"
    /\ args \in cmdlines
    /\ octocrab = ""
    /\ github_repos = <<>> /\ github_orgs = <<>>
    /\ github_workflows = <<>> /\ readers = <<>> /\ writer = <<>>
    /\ gauges = <<>>
    /\ dpc = "idle" /\ dIdx = 1 /\ dHeld = <<>> /\ dResp = Pending
    /\ updated_workflows = <<>>
    /\ upc = "idle" /\ uIdx = 1 /\ uW = 0 /\ workflow = NoWorkflow /\ uResp = Pending
    /\ uSnap = <<>> /\ uPolled = <<>> /\ lastGood = <<>> /\ published = {}
    /\ opc = "idle" /\ oIdx = 1 /\ oRes = AllPending

Token == Some(<<"a">>)

\* a base URL an operator may give in place of the default
ENTERPRISE_BASE_URL == "https://github.example.com/api/v3"

\* command lines that give one repository string, every string of Strings
CmdLinesParse == {CmdLine(TRUE, Token, Cli(<<s>>), Default, Absent) : s \in Strings}

\* command lines and environments, right and wrong
CmdLinesMain ==
    {CmdLine(TRUE, Token, Cli(<<<<"a", "/", "b">>>>), Default, Absent),
     CmdLine(TRUE, Token, Default, Cli(<<<<"a">>>>), Absent),
     CmdLine(TRUE, Token, Cli(<<<<"a", "b">>>>), Default, Absent),
     CmdLine(TRUE, Token, Cli(<<<<"a", "/", "b">>, <<"b">>>>), Default, Absent),
     CmdLine(TRUE, Token, Env(<<<<"a", "/", "b">>>>), Default, Absent),
     CmdLine(TRUE, Token, Env(<<<<"a", "b">>>>), Default, Absent),
     CmdLine(TRUE, Token, Default, Env(<<<<"a">>>>), Absent),
     CmdLine(FALSE, Token, Cli(<<<<"a", "/", "b">>>>), Default, Absent),
     CmdLine(TRUE, None, Cli(<<<<"a", "/", "b">>>>), Default, Absent),
     CmdLine(TRUE, None, Default, Cli(<<<<"a">>>>), Absent),
     CmdLine(TRUE, Token, Cli(<<<<"a", "/", "b">>>>), Default, Cli(<<ENTERPRISE_BASE_URL>>)),
     CmdLine(TRUE, Token, Default, Cli(<<<<"a">>>>), Env(<<ENTERPRISE_BASE_URL>>))}

Init == main(ConfigsTwo)
InitParse == start(CmdLinesParse)
InitMain == start(CmdLinesMain)
InitMetrics == main(ConfigsOne)
InitPaging == main(ConfigsRepo)
InitNames == main(ConfigsRepo)

Discovery(lists) ==
    \/ poll_workflows_wake
    \/ list_workflows_ok(lists)
    \/ list_workflows_err
    \/ poll_workflow_collect
    \/ poll_workflow_failed
    \/ poll_workflow_write
    \/ poll_workflow_replace

UsagePolling(usages) ==
    \/ poll_billable_ms_wake
    \/ poll_billable_ms_read
    \/ timing_ok(usages)
    \/ timing_err
    \/ poll_billable_ms_published
    \/ poll_billable_ms_failed

OrgBilling(actions, packages, storage) ==
    \/ poll_orgs_billing_wake
    \/ actions_billing_response(actions)
    \/ packages_billing_response(packages)
    \/ shared_storage_billing_response(storage)
    \/ poll_org_billing_joined

Next ==
    \/ Discovery(ListsFew)
    \/ UsagePolling(UsagesFew)
    \/ OrgBilling(ActionsFew, PackagesFew, StorageFew)

NextMetrics ==
    \/ Discovery(ListsOne)
    \/ UsagePolling(UsagesAll)
    \/ OrgBilling(ActionsAll, PackagesFew, StorageFew)

NextPaging ==
    \/ Discovery(ListsLong)
    \/ UsagePolling(UsagesFew)

\* every configuration with two items per loop, few upstream answers
Spec == Init /\ [][Next]_vars
\* one item per loop, every shape of timing and actions answer
SpecMetrics == InitMetrics /\ [][NextMetrics]_vars
\* one repository whose upstream list does not fit one page
SpecPaging == InitPaging /\ [][NextPaging]_vars

\* one repository whose workflows change their label or their id upstream
NextNames ==
    \/ Discovery(ListsNames)
    \/ UsagePolling(UsagesTwo)

SpecNames == InitNames /\ [][NextNames]_vars

\* main alone, on every repository string
NextParse == main_run

SpecParse == InitParse /\ [][NextParse]_vars

\* the process from its start
NextMain ==
    \/ main_run
    \/ Discovery(ListsOne)
    \/ UsagePolling(UsagesFew)
    \/ OrgBilling(ActionsFew, PackagesFew, StorageFew)

SpecMain == InitMain /\ [][NextMain]_vars

----------------------------------------------------------------------------
(* Fairness: a task that can run is run, a sleep ends; the upstream owes no answer *)

TaskSteps ==
    /\ WF_vars(poll_workflows_wake)
    /\ WF_vars(poll_workflow_collect)
    /\ WF_vars(poll_workflow_failed)
    /\ WF_vars(poll_workflow_write)
    /\ WF_vars(poll_workflow_replace)
    /\ WF_vars(poll_billable_ms_wake)
    /\ WF_vars(poll_billable_ms_read)
    /\ WF_vars(poll_billable_ms_published)
    /\ WF_vars(poll_billable_ms_failed)
    /\ WF_vars(poll_orgs_billing_wake)
    /\ WF_vars(poll_org_billing_joined)

FairSpec == Spec /\ TaskSteps

\* every upstream call returns, with an answer or with an error
CallsReturn ==
    /\ WF_vars(list_workflows_ok(ListsFew) \/ list_workflows_err)
    /\ WF_vars(timing_ok(UsagesFew) \/ timing_err)
    /\ WF_vars(actions_billing_response(ActionsFew))
    /\ WF_vars(packages_billing_response(PackagesFew))
    /\ WF_vars(shared_storage_billing_response(StorageFew))

\* tokio's RwLock queues its waiters: a reader that waits behind a writer gets the lock
\* when the writer drops it, before the writer can ask again
QueuedReaderServed == SF_vars(poll_billable_ms_read)

LiveSpec == Spec /\ TaskSteps /\ CallsReturn /\ QueuedReaderServed

----------------------------------------------------------------------------
(* Organisation billing *)

\* the series labelled with organisation org
OrgSeries(g, org) ==
    LET keys == {k \in DOMAIN g : k[1] # BILLABLE_MS /\ k[2][1] = org}
    IN  [k \in keys |-> g[k]]

AnyFailed(res) == res.actions = Err \/ res.packages = Err \/ res.shared_storage = Err

\* C1: when one of the three billing fetches of an organisation has failed, whichever it
\* is, the step that ends the organisation's poll changes no series of that organisation.
C1_AllOrNothing ==
    [][(opc = "join" /\ Joined(oRes) /\ AnyFailed(oRes))
          => OrgSeries(gauges', Org(oIdx)) = OrgSeries(gauges, Org(oIdx))]_vars

----------------------------------------------------------------------------
(* The workflow cache under the discovery and usage tasks *)

SameWorkflows(cached, items) ==
    /\ Len(cached) = Len(items)
    /\ \A i \in DOMAIN items :
          cached[i].id = items[i].id /\ cached[i].name = items[i].name

\* the discovery task ends its step for the repository it is at
DiscoveryStepEnds == dIdx' # dIdx \/ dpc' = "idle"

\* C2: while the usage task waits for the timing answer of a workflow of a repository, the
\* discovery task, once its fetch for that repository has succeeded, can take the write
\* guard of the repository's entry.
C2_StalledUsageDoesNotBlockDiscovery ==
    \A i \in DOMAIN github_repos :
        (upc = "timing" /\ uIdx = i /\ dpc = "write" /\ dIdx = i) => can_write(Repo(i))

\* C3: the step that ends a successful discovery of a repository leaves the repository's
\* entry equal to the fetched list, element by element and in its order, whatever the
\* entry held; every other entry is left as it was.
C3_DiscoveryFullReplace ==
    [][(dpc = "held" /\ DiscoveryStepEnds)
          => /\ SameWorkflows(github_workflows'[Repo(dIdx)], dResp[2])
             /\ \A r \in DOMAIN github_workflows \ {Repo(dIdx)} :
                   github_workflows'[r] = github_workflows[r]]_vars

\* an entry that was polled when it held a workflow, and was then replaced by the empty list
C3_Witness ==
    /\ github_repos # <<>>
    /\ github_workflows[Repo(1)] = <<>>
    /\ Has(gauges, BILLABLE_MS, <<Repo(1).owner, Repo(1).name, "ci", UBUNTU>>)
    /\ dpc = "idle"

\* C4: the step that ends a successful discovery of a repository leaves in the entry every
\* workflow the upstream held for the repository.
C4_DiscoveryPaginatedToCompletion ==
    [][(dpc = "held" /\ DiscoveryStepEnds)
          => \A i \in DOMAIN dHeld :
                \E j \in DOMAIN github_workflows'[Repo(dIdx)] :
                    github_workflows'[Repo(dIdx)][j].id = dHeld[i].id]_vars

\* C5: the step that handles a failed list call changes no entry of the cache, and the
\* task goes on to the next repository of the cycle (or, after the last, to its sleep).
C5_DiscoveryFailureIsolated ==
    [][(dpc = "resp" /\ dResp = Err /\ dpc' # "resp")
          => /\ github_workflows' = github_workflows
             /\ IF dIdx < Len(github_repos)
                THEN dpc' = "fetch" /\ dIdx' = dIdx + 1
                ELSE dpc' = "idle"]_vars

\* the list call of the first of two repositories has failed while its entry holds workflows
C5_Witness ==
    /\ dpc = "resp" /\ dResp = Err
    /\ dIdx = 1 /\ Len(github_repos) = 2
    /\ github_workflows[Repo(1)] # <<>>

\* the lists a discovery can install, and the empty list of main
Installable == {<<>>} \cup {collect_workflows(first_page(l)) : l \in ListsFew}

UsageInPass == upc \in {"timing", "resp"}

\* C6: the workflows the usage task polls in one pass over a repository are those of one
\* installed list: the entry does not change while the pass lasts, each polled workflow is
\* the element of that list at its index, and a finished pass has polled that list whole.
C6_UsageReadsOneList ==
    /\ uSnap \in Installable
    /\ Len(uPolled) <= Len(uSnap)
    /\ \A i \in DOMAIN uPolled : uPolled[i] = uSnap[i]
    /\ UsageInPass =>
          /\ github_workflows[Repo(uIdx)] = uSnap
          /\ Len(uPolled) = uW
          /\ workflow = uSnap[uW]
    /\ ~UsageInPass => uPolled = uSnap

\* the usage task is at the second workflow of a list that the discovery task is waiting to replace
C6_Witness ==
    /\ upc = "timing" /\ uW = 2
    /\ dpc = "write" /\ dIdx = uIdx
    /\ updated_workflows # uSnap

C8_HungCallDoesNotDelayFollowingItems ==
    /\ (dpc = "fetch" /\ dIdx = 1 /\ Len(github_repos) > 1) ~> (dIdx = 2)
    /\ (upc = "timing" /\ uW = 1 /\ Len(uSnap) > 1) ~> (uW = 2)
    /\ (opc = "join" /\ oIdx = 1 /\ Len(github_orgs) > 1) ~> (oIdx = 2)

\* C9: the step that handles a failed timing call goes on to the next workflow of the same
\* list; after the last workflow it goes on to the next repository, and after the last
\* repository to the sleep.
C9_UsageFailureIsolated ==
    [][(upc = "resp" /\ uResp = Err /\ upc' # "resp")
          => IF uW < Len(uSnap)
             THEN upc' = "timing" /\ uIdx' = uIdx /\ uW' = uW + 1 /\ workflow' = uSnap[uW + 1]
             ELSE IF uIdx < Len(github_repos)
                  THEN upc' = "read" /\ uIdx' = uIdx + 1
                  ELSE upc' = "idle"]_vars

\* the second workflow of a list is being polled and the first has never been polled with success
C9_Witness ==
    /\ upc = "timing" /\ uW = 2
    /\ ~Has(gauges, BILLABLE_MS, <<Repo(uIdx).owner, Repo(uIdx).name, uSnap[1].name, UBUNTU>>)

----------------------------------------------------------------------------
(* Host classes absent from an answer *)

\* the field of a Billable or of a MinutesUsedBreakdown that belongs to a host class
OfClass(fields, os) ==
    CASE os = UBUNTU -> fields.ubuntu
      [] os = MACOS -> fields.macos
      [] os = WINDOWS -> fields.windows

\* a step sets the series to v when opt is Some(v), and leaves it as it was, present or
\* not, when opt is None
SetOrUntouched(metric, labels, opt) ==
    IF opt # None
    THEN Has(gauges', metric, labels) /\ Value(gauges', metric, labels) = opt[1]
    ELSE /\ Has(gauges', metric, labels) <=> Has(gauges, metric, labels)
         /\ Has(gauges, metric, labels) =>
               Value(gauges', metric, labels) = Value(gauges, metric, labels)

\* C10: the step that handles a successful timing answer sets the billable_ms series of
\* (owner, repo, workflow name, class) to the answer's total_ms for each class the answer
\* holds, and leaves the series of each class it does not hold as it was, created or not;
\* the step that publishes an actions billing answer does the same with the breakdown
\* series of (organisation, class).
C10_AbsentClassesUnpublished ==
    [][/\ (upc = "resp" /\ IsOk(uResp) /\ upc' # "resp") =>
             \A os \in HostClasses :
                 SetOrUntouched(BILLABLE_MS,
                                <<Repo(uIdx).owner, Repo(uIdx).name, workflow.name, os>>,
                                total_ms_of(OfClass(uResp[2].billable, os)))
       /\ (opc = "join" /\ Joined(oRes) /\ IsOk(oRes.actions) /\ oRes' # oRes) =>
             \A os \in HostClasses :
                 SetOrUntouched(ACTIONS_MINUTES_USED_BREAKDOWN, <<Org(oIdx), os>>,
                                OfClass(oRes.actions[2].minutes_used_breakdown, os))]_vars

\* a timing answer with class ubuntu alone has been published: no series of the other classes
C10_Witness ==
    /\ github_repos # <<>>
    /\ Has(gauges, BILLABLE_MS, <<Repo(1).owner, Repo(1).name, "ci", UBUNTU>>)
    /\ Value(gauges, BILLABLE_MS, <<Repo(1).owner, Repo(1).name, "ci", UBUNTU>>) = MaxMs
    /\ ~Has(gauges, BILLABLE_MS, <<Repo(1).owner, Repo(1).name, "ci", MACOS>>)
    /\ ~Has(gauges, BILLABLE_MS, <<Repo(1).owner, Repo(1).name, "ci", WINDOWS>>)


\* the billable_ms series of a registry
BillableSeries(g) == [k \in {x \in DOMAIN g : x[1] = BILLABLE_MS} |-> g[k]]

\* C11: last-known-good gauges. Once the usage task has handled an answer, every billable_ms
\* series exists exactly if some successful timing answer held its class, and its value is the
\* figure of the latest such answer: a failed fetch changed no value and no value was added
\* to an earlier one. While a successful answer waits to be handled the registry is one
\* publication behind.
C11_LastKnownGood ==
    (upc = "resp" /\ IsOk(uResp)) \/ BillableSeries(gauges) = lastGood

\* a series was published at 2, then at 1, and the next fetch of its workflow has failed
C11_Witness ==
    /\ upc = "resp" /\ uResp = Err
    /\ \E k \in DOMAIN lastGood :
          /\ k[2][3] = workflow.name
          /\ lastGood[k] = 1
          /\ gauges[k] = 1
    /\ \E k \in DOMAIN gauges : k[1] = BILLABLE_MS /\ gauges[k] = MaxMs


----------------------------------------------------------------------------
(* Workflows that leave the list, change their label, or share one *)

Ids(cached) == {cached[i].id : i \in DOMAIN cached}
SeriesOfRepo(g, r) == {k \in DOMAIN g : k[1] = BILLABLE_MS /\ k[2][1] = r.owner /\ k[2][2] = r.name}

\* C12: while the cache entry of a repository does not hold a workflow that has published,
\* no step sends a timing call for that workflow and no step changes a series the workflow
\* has published; and while the entry is empty no step adds a series of the repository.
C12_RemovalPickedUp ==
    [][/\ \A p \in published :
             p[2] \notin Ids(github_workflows[p[1]]) =>
                /\ ~(upc # "timing" /\ upc' = "timing" /\ Repo(uIdx') = p[1] /\ workflow'.id = p[2])
                /\ \A os \in HostClasses :
                      LET k == Series(BILLABLE_MS, <<p[1].owner, p[1].name, p[3], os>>)
                      IN  k \in DOMAIN gauges => k \in DOMAIN gauges' /\ gauges'[k] = gauges[k]
       /\ \A r \in Range(github_repos) :
             github_workflows[r] = <<>> => SeriesOfRepo(gauges', r) \subseteq SeriesOfRepo(gauges, r)
      ]_vars

\* C15: a workflow, identified by its id, has published under one label only
C15_StableSeriesIdentity ==
    \A p, q \in published : (p[1] = q[1] /\ p[2] = q[2]) => p[3] = q[3]


----------------------------------------------------------------------------
(* Organisation billing when the three fetches succeed *)

AllSucceeded(res) == IsOk(res.actions) /\ IsOk(res.packages) /\ IsOk(res.shared_storage)

\* the series of metric for organisation org holds value v
IsSet(g, metric, org, v) == Has(g, metric, <<org>>) /\ Value(g, metric, <<org>>) = v

\* C13: when the three billing fetches of an organisation have succeeded, the step that ends
\* the organisation's poll sets the three actions totals, the three packages metrics and the
\* three shared-storage metrics to the fields of the answers (the paid minutes, sent as
\* text, to the number the text writes: the total plus 10 in every body the upstream sends),
\* and the breakdown series of every host class the answer holds to its minutes.
C13_OrgBillingSuccessPublishesAll ==
    [][(opc = "join" /\ AllSucceeded(oRes)) =>
          LET org == Org(oIdx)
              a == oRes.actions[2]
              p == oRes.packages[2]
              st == oRes.shared_storage[2]
          IN  /\ IsSet(gauges', ACTIONS_TOTAL_MINUTES_USED, org, a.total_minutes_used)
              /\ IsSet(gauges', ACTIONS_TOTAL_PAID_MINUTES_USED, org, a.total_minutes_used + 10)
              /\ IsSet(gauges', ACTIONS_INCLUDED_MINUTES, org, a.included_minutes)
              /\ \A os \in HostClasses :
                    a.minutes_used_breakdown[os] # None =>
                       /\ Has(gauges', ACTIONS_MINUTES_USED_BREAKDOWN, <<org, os>>)
                       /\ Value(gauges', ACTIONS_MINUTES_USED_BREAKDOWN, <<org, os>>)
                             = a.minutes_used_breakdown[os][1]
              /\ IsSet(gauges', PACKAGES_TOTAL_GB_USED, org, p.total_gigabytes_bandwidth_used)
              /\ IsSet(gauges', PACKAGES_TOTAL_PAID_GB_USED, org,
                       p.total_paid_gigabytes_bandwidth_used)
              /\ IsSet(gauges', PACKAGES_INCLUDED_GB, org, p.included_gigabytes_bandwidth)
              /\ IsSet(gauges', STORAGE_DAYS_LEFT, org, st.days_left_in_billing_cycle)
              /\ IsSet(gauges', STORAGE_ESTIMATED_PAID, org, st.estimated_paid_storage_for_month)
              /\ IsSet(gauges', STORAGE_ESTIMATED, org, st.estimated_storage_for_month)
      ]_vars

\* a poll of the organisation whose three fetches succeeded, the breakdown holding two
\* classes, has been published
C13_Witness ==
    /\ opc = "idle"
    /\ IsSet(gauges, ACTIONS_TOTAL_PAID_MINUTES_USED, Acme, 11)
    /\ IsSet(gauges, PACKAGES_INCLUDED_GB, Acme, 21)
    /\ IsSet(gauges, STORAGE_ESTIMATED, Acme, 21)
    /\ Has(gauges, ACTIONS_MINUTES_USED_BREAKDOWN, <<Acme, MACOS>>)
    /\ Value(gauges, ACTIONS_MINUTES_USED_BREAKDOWN, <<Acme, MACOS>>) = MaxMinutes
    /\ Has(gauges, ACTIONS_MINUTES_USED_BREAKDOWN, <<Acme, UBUNTU>>)
    /\ ~Has(gauges, ACTIONS_MINUTES_USED_BREAKDOWN, <<Acme, WINDOWS>>)


----------------------------------------------------------------------------
(* The textual form of a repository *)

\* the repository string of the command line
RepositoryString == args.github_repos.values[1]

\* C14: once main has parsed the repository string s of the command line: if s holds no '/'
\* the parse has failed and main has ended in error; if it holds one, the parse has given
\* the repository whose owner is the text before the first '/' and whose name is the text
\* after it, and the display of that repository is s.
C14_RepositoryParsing ==
    mpc # "start" =>
       IF "/" \notin Range(RepositoryString)
       THEN mpc = "exit" /\ github_repos = <<>>
       ELSE /\ mpc = "spawned"
            /\ Len(github_repos) = 1
            /\ "/" \notin Range(github_repos[1].owner)
            /\ display(github_repos[1]) = RepositoryString

\* a string with two separators has been parsed: the second one is part of the name
C14_Witness ==
    /\ mpc = "spawned"
    /\ Len(github_repos) = 1
    /\ github_repos[1].owner # <<>>
    /\ "/" \in Range(github_repos[1].name)


----------------------------------------------------------------------------
(* Configuration errors *)

Malformed(s) == "/" \notin Range(s)

\* the values the operator gave for an argument, on the command line or in the environment
Configured(arg) == IF arg.source = "default" THEN <<>> ELSE arg.values

Misconfigured ==
    \/ ~args.bind_valid
    \/ args.github_token = None
    \/ \E s \in Range(Configured(args.github_repos)) : Malformed(s)

\* C16: when a configured repository string is malformed, the bind address is invalid or
\* the credential is missing, the tasks are never spawned: none of them ever leaves its
\* start, so no upstream call is made.
C16_ConfigurationErrorsAreFatal ==
    Misconfigured => (mpc # "spawned" /\ dpc = "idle" /\ upc = "idle" /\ opc = "idle")


----------------------------------------------------------------------------
(* The three billing fetches of an organisation *)

Fetches == {"actions", "packages", "shared_storage"}

\* C17: the poll of an organisation starts with its three fetches in flight together; a
\* series of an organisation changes only in a step taken when the three fetches of that
\* organisation have all completed; and while one of them is in flight the poll stays at
\* the organisation and every completed result, failed or not, is kept: a failure ends
\* nothing.
C17_OrgFetchOrdering ==
    [][/\ (opc' = "join" /\ (opc # "join" \/ oIdx' # oIdx)) => oRes' = AllPending
       /\ \A org \in Range(github_orgs) :
             OrgSeries(gauges', org) # OrgSeries(gauges, org) =>
                (opc = "join" /\ Joined(oRes) /\ org = Org(oIdx))
       /\ (opc = "join" /\ ~Joined(oRes)) =>
             /\ opc' = "join" /\ oIdx' = oIdx
             /\ \A k \in Fetches : oRes[k] # Pending => oRes'[k] = oRes[k]
      ]_vars

\* the actions fetch has failed first; the shared-storage fetch has been answered after it
\* and the packages fetch is still in flight
C17_Witness ==
    /\ opc = "join"
    /\ oRes.actions = Err
    /\ oRes.packages = Pending
    /\ IsOk(oRes.shared_storage)


----------------------------------------------------------------------------
(* The write lock of the discovery task *)

\* C18: a write guard is alive only between the discovery task's acquisition and its
\* assignment, for the repository the task is at: never while its list call is in flight or
\* its answer unhandled. It is taken with the successful answer in hand and no reader in
\* the entry, and the next step of the discovery task, the assignment, drops it.
C18_WriteLockOnlyForReplacement ==
    [][\A r \in Range(github_repos) :
          /\ writer[r] => (dpc = "held" /\ Repo(dIdx) = r)
          /\ writer'[r] => (dpc' = "held" /\ Repo(dIdx') = r)
          /\ (~writer[r] /\ writer'[r]) => (dpc = "write" /\ IsOk(dResp) /\ readers[r] = 0)
          /\ (writer[r] /\ discVars' # discVars) =>
                (~writer'[r] /\ github_workflows'[r] = updated_workflows)
      ]_vars

\* the discovery task holds the write guard of the second repository while the usage task
\* waits to read that entry
C18_Witness ==
    /\ dpc = "held" /\ dIdx = 2 /\ writer[Repo(2)]
    /\ upc = "read" /\ uIdx = 2


----------------------------------------------------------------------------
(* The loops never end *)

\* C19: when every upstream call returns and the tasks are scheduled fairly, each task
\* ends cycle after cycle for ever (its sleep is reached again and again), the list call of
\* every repository, the read of every cache entry and the three billing calls of every
\* organisation are made again and again; the usage task is again and again in its pass
\* over every entry that holds workflows, and in a pass the timing call of a workflow leads
\* to the timing call of the workflow after it.
C19_LoopsRepeatForever ==
    /\ []<>(dpc = "idle") /\ []<>(upc = "idle") /\ []<>(opc = "idle")
    /\ \A i \in {1, 2} :
          /\ []<>(i > Len(github_repos) \/ (dpc = "fetch" /\ dIdx = i))
          /\ []<>(i > Len(github_repos) \/ (upc = "read" /\ uIdx = i))
          /\ []<>(i > Len(github_repos) \/ (upc # "read" /\ upc # "idle" /\ uIdx = i)
                    \/ github_workflows[Repo(i)] = <<>>)
          /\ []<>(i > Len(github_orgs) \/ (opc = "join" /\ oIdx = i /\ oRes = AllPending))
    /\ (upc = "timing" /\ uW = 1 /\ Len(uSnap) > 1) ~> (upc = "timing" /\ uW = 2)

\* both tasks are past their first cycle: the list call of the second repository is in
\* flight again while the usage task polls the second workflow of an entry, with series
\* published before
C19_Witness ==
    /\ dpc = "fetch" /\ dIdx = 2
    /\ github_workflows[Repo(2)] # <<>>
    /\ upc = "timing" /\ uW = 2
    /\ gauges # <<>>


----------------------------------------------------------------------------
(* Deadlock freedom of the cache *)

WriteGuards == {r \in Range(github_repos) : writer[r]}
ReadGuards == {r \in Range(github_repos) : readers[r] > 0}

DiscoveryWaits == dpc = "write" /\ ~can_write(Repo(dIdx))
UsageWaits == upc = "read" /\ ~can_read(Repo(uIdx))

NoCallInFlight == dpc # "fetch" /\ upc # "timing" /\ (opc = "join" => Joined(oRes))

\* a step of one of the three tasks: not an answer of the upstream
TaskStep ==
    \/ poll_workflows_wake \/ poll_workflow_collect \/ poll_workflow_failed
    \/ poll_workflow_write \/ poll_workflow_replace
    \/ poll_billable_ms_wake \/ poll_billable_ms_read
    \/ poll_billable_ms_published \/ poll_billable_ms_failed
    \/ poll_orgs_billing_wake \/ poll_org_billing_joined

\* C20: the discovery task holds at most one write guard and the usage task at most one
\* read guard, of one entry, and a task that waits for a lock holds none; the two tasks
\* never wait for each other; a task that waits for a lock waits for a task that is not
\* waiting for a lock itself; and when no upstream call is in flight some task can step.
C20_DeadlockFreedom ==
    /\ Cardinality(WriteGuards) <= 1
    /\ Cardinality(ReadGuards) <= 1
    /\ \A r \in ReadGuards : readers[r] = 1
    /\ dpc = "write" => WriteGuards = {}
    /\ upc = "read" => ReadGuards = {}
    /\ ~(DiscoveryWaits /\ UsageWaits)
    /\ DiscoveryWaits => upc \in {"timing", "resp"}
    /\ UsageWaits => dpc \in {"write", "held"}
    /\ NoCallInFlight => ENABLED TaskStep

\* the discovery task waits for the entry the usage task has under its read guard, with no
\* upstream call in flight
C20_Witness ==
    /\ DiscoveryWaits
    /\ upc = "resp"
    /\ NoCallInFlight


----------------------------------------------------------------------------
(* The state at launch *)

\* the repositories the operator configured, on the command line or in the environment
ConfiguredRepositories ==
    {from_str(s)[2] : s \in {t \in Range(Configured(args.github_repos)) : ~Malformed(t)}}

\* C21: the step of main that spawns the three tasks leaves a cache of exactly one entry per
\* configured repository, each an empty list; an entry changes only in the discovery task's
\* assignment after a successful list call for its repository; and while the entry of a
\* repository is empty no step sends a timing call for it or changes a series of it.
C21_StartupState ==
    [][/\ (mpc = "start" /\ mpc' = "spawned") =>
             /\ DOMAIN github_workflows' = ConfiguredRepositories
             /\ \A r \in DOMAIN github_workflows' : github_workflows'[r] = <<>>
       /\ \A r \in DOMAIN github_workflows :
             /\ github_workflows'[r] # github_workflows[r] =>
                   (dpc = "held" /\ Repo(dIdx) = r /\ IsOk(dResp))
             /\ github_workflows[r] = <<>> =>
                   /\ ~(upc # "timing" /\ upc' = "timing" /\ Repo(uIdx') = r)
                   /\ SeriesOfRepo(gauges', r) = SeriesOfRepo(gauges, r)
      ]_vars


----------------------------------------------------------------------------
(* The base URL of the upstream client *)

\* the base URL the operator supplied, on the command line or in the environment
SuppliedBaseUrl == args.github_api_baseurl.values

\* C22: once the tasks are spawned the upstream client has been built with the base URL
\* the operator supplied, or with the default one when none was supplied.
C22_BaseUrlOverride ==
    mpc = "spawned" =>
       octocrab = IF SuppliedBaseUrl # <<>> THEN SuppliedBaseUrl[1] ELSE GITHUB_BASE_URL

====
